---- MODULE Spec2Model ----
(***************************************************************************)
(* A model of scripts/flightsfrom_scrape.py: the field parsers, the record *)
(* extractor parse_rows, the table serializer rows_to_csv and the batch    *)
(* loop of main.                                                           *)
(*                                                                         *)
(* Python strings are modelled as sequences of one-character strings, so   *)
(* that stripping, lower-casing, regular-expression matching, ordering and *)
(* CSV quoting are computed character by character as the code does.       *)
(***************************************************************************)
EXTENDS Integers, Sequences, FiniteSets, TLC

VARIABLES
  pc,        \* control position of the operation under way
  label,     \* SpecFpd: the structured description of the frequency label
  text,      \* SpecFpd: the label text handed to parse_flights_per_day
  fpd,       \* SpecFpd: the pair returned by parse_flights_per_day
  origin,    \* SpecRows: the origin code handed to parse_rows
  doc,       \* SpecRows: the document, a sequence of div.ff-wrapper elements
  found,     \* SpecRows: parse_rows' list rows when its loop over the wrappers ends
  rows,      \* SpecRows: the list returned by parse_rows; SpecCsv: the input list
  rows2,     \* SpecCsv: a second ordering of the same collection
  csv,       \* the text returned by rows_to_csv(rows)
  csv2,      \* SpecCsv: the text returned by rows_to_csv(rows2)
  airports,  \* SpecMain: the batch, the list of origins
  idx,       \* SpecMain: position of the for loop in airports
  files,     \* SpecMain: the output directory, file name -> content
  log,       \* SpecMain: what happened to each origin attempted so far
  status     \* SpecMain: the value main returned

vars == <<pc, label, text, fpd, origin, doc, found, rows, rows2, csv, csv2,
          airports, idx, files, log, status>>

fpdVars  == <<label, text, fpd>>
rowsVars == <<origin, doc, found>>
csvVars  == <<rows, rows2, csv, csv2>>
mainVars == <<airports, idx, files, log, status>>

\* Python's None in an Optional[int] field: no int the code parses is negative.
None == -1

(***************************************************************************)
(* Characters                                                              *)
(***************************************************************************)

\* The characters of the model in code-point order (str comparison in
\* sorted() compares code points).
AsciiOrder ==
  <<"\t", "\n", "\r", " ", "\"", "+", ",", "-", ".", "/",
    "0", "1", "2", "3", "4", "5", "6", "7", "8", "9", ":",
    "A", "B", "C", "D", "E", "F", "G", "H", "I", "J", "K", "L", "M",
    "N", "O", "P", "Q", "R", "S", "T", "U", "V", "W", "X", "Y", "Z", "_",
    "a", "b", "c", "d", "e", "f", "g", "h", "i", "j", "k", "l", "m",
    "n", "o", "p", "q", "r", "s", "t", "u", "v", "w", "x", "y", "z">>

Chars == {AsciiOrder[k] : k \in 1..Len(AsciiOrder)}

Ord(c) == CHOOSE k \in 1..Len(AsciiOrder) : AsciiOrder[k] = c

DigitChars == {"0", "1", "2", "3", "4", "5", "6", "7", "8", "9"}
SpaceChars == {" ", "\t", "\n", "\r"}
UpperChars == {AsciiOrder[k] : k \in Ord("A")..Ord("Z")}
UpperAlnum == UpperChars \cup DigitChars
NotNewline == Chars \ {"\n"}

\* str.lower() on one character.
LowerChar(c) ==
  IF c \in UpperChars THEN AsciiOrder[Ord(c) - Ord("A") + Ord("a")] ELSE c

Lower(s) == [k \in 1..Len(s) |-> LowerChar(s[k])]

\* str.strip(): leading and trailing whitespace removed.
Strip(s) ==
  LET keep == {k \in 1..Len(s) : s[k] \notin SpaceChars}
  IN  IF keep = {} THEN <<>>
      ELSE LET lo == CHOOSE k \in keep : \A j \in keep : k <= j
               hi == CHOOSE k \in keep : \A j \in keep : k >= j
           IN  SubSeq(s, lo, hi)

DigitVal(c) == Ord(c) - Ord("0")

\* int() of a string of decimal digits.
RECURSIVE ToInt(_)
ToInt(ds) ==
  IF ds = <<>> THEN 0
  ELSE ToInt(SubSeq(ds, 1, Len(ds) - 1)) * 10 + DigitVal(ds[Len(ds)])

\* str() of a non-negative int.
RECURSIVE ToStr(_)
ToStr(n) ==
  IF n < 10 THEN <<AsciiOrder[Ord("0") + n]>>
  ELSE ToStr(n \div 10) \o <<AsciiOrder[Ord("0") + (n % 10)]>>

(***************************************************************************)
(* Regular expressions (module re): a pattern is a sequence of items, a    *)
(* literal, an optional literal, or a greedy run of a character class with *)
(* a minimum and maximum length; matching backtracks as re does.           *)
(***************************************************************************)

Lit(w)     == [k |-> "lit", w |-> w, cls |-> {}, min |-> 0, lim |-> FALSE, max |-> 0, cap |-> FALSE]
Opt(w)     == [k |-> "opt", w |-> w, cls |-> {}, min |-> 0, lim |-> FALSE, max |-> 0, cap |-> FALSE]
\* cls* (lo = 0) or cls+ (lo = 1), and the same as a capturing group.
Run(c, lo) == [k |-> "run", w |-> <<>>, cls |-> c, min |-> lo, lim |-> FALSE, max |-> 0, cap |-> FALSE]
Cap(c, lo) == [k |-> "run", w |-> <<>>, cls |-> c, min |-> lo, lim |-> FALSE, max |-> 0, cap |-> TRUE]
\* (cls{n}), a capturing group of exactly n characters.
CapN(c, n) == [k |-> "run", w |-> <<>>, cls |-> c, min |-> n, lim |-> TRUE, max |-> n, cap |-> TRUE]
\* $ (the texts matched have no trailing newline: they are stripped first).
EndOfText  == [k |-> "end", w |-> <<>>, cls |-> {}, min |-> 0, lim |-> FALSE, max |-> 0, cap |-> FALSE]

NoMatch == [ok |-> FALSE, caps |-> <<>>, end |-> 0]

LitAt(t, i, w) ==
  /\ i + Len(w) - 1 <= Len(t)
  /\ \A k \in 1..Len(w) : t[i + k - 1] = w[k]

\* The position after the longest run of characters of cls from position i,
\* no longer than max characters when lim is set.
RunEnd(t, i, cls, lim, max) ==
  IF i > Len(t) \/ t[i] \notin cls THEN i ELSE
  LET stop == {j \in i..(Len(t) + 1) :
                 \/ j = Len(t) + 1
                 \/ t[j] \notin cls
                 \/ (lim /\ j = i + max)}
  IN  CHOOSE j \in stop : \A j2 \in stop : j <= j2

RECURSIVE MatchItems(_, _, _, _, _), MatchRun(_, _, _, _, _, _)
\* Items k.. of pattern re matched at position i of t; caps are the groups
\* captured so far.
MatchItems(re, k, t, i, caps) ==
  IF k > Len(re) THEN [ok |-> TRUE, caps |-> caps, end |-> i]
  ELSE LET it == re[k] IN
    CASE it.k = "lit" ->
           IF LitAt(t, i, it.w)
             THEN MatchItems(re, k + 1, t, i + Len(it.w), caps)
             ELSE NoMatch
      [] it.k = "opt" ->
           LET with == IF LitAt(t, i, it.w)
                         THEN MatchItems(re, k + 1, t, i + Len(it.w), caps)
                         ELSE NoMatch
           IN  IF with.ok THEN with ELSE MatchItems(re, k + 1, t, i, caps)
      [] it.k = "run" ->
           LET e == RunEnd(t, i, it.cls, it.lim, it.max)
           IN  IF e - i < it.min THEN NoMatch ELSE MatchRun(re, k, t, i, caps, e)
      [] it.k = "end" ->
           IF i = Len(t) + 1 THEN MatchItems(re, k + 1, t, i, caps) ELSE NoMatch

\* The run item k taken up to position e (exclusive), then shorter on failure.
MatchRun(re, k, t, i, caps, e) ==
  LET it == re[k]
      r  == MatchItems(re, k + 1, t, e,
                       IF it.cap THEN Append(caps, SubSeq(t, i, e - 1)) ELSE caps)
  IN  IF r.ok THEN r
      ELSE IF e - 1 >= i + it.min THEN MatchRun(re, k, t, i, caps, e - 1)
      ELSE NoMatch

\* re.match: at the start of the text.
ReMatch(re, t) == MatchItems(re, 1, t, 1, <<>>)

\* re.search: the match at the leftmost position that has one.
ReSearch(re, t) ==
  LET at == {i \in 1..(Len(t) + 1) : MatchItems(re, 1, t, i, <<>>).ok}
  IN  IF at = {} THEN NoMatch
      ELSE MatchItems(re, 1, t, CHOOSE i \in at : \A j \in at : i <= j, <<>>)

(***************************************************************************)
(* Field parsers                                                           *)
(***************************************************************************)

W_flight == <<"f", "l", "i", "g", "h", "t">>
W_flights == <<"f", "l", "i", "g", "h", "t", "s">>
W_per == <<"p", "e", "r">>
W_day == <<"d", "a", "y">>

\* (\d+)\s*-\s*(\d+)\s+flights?\s+per\s+day
RE_FPD_RANGE ==
  <<Cap(DigitChars, 1), Run(SpaceChars, 0), Lit(<<"-">>),
    Run(SpaceChars, 0), Cap(DigitChars, 1),
    Run(SpaceChars, 1), Lit(W_flight), Opt(<<"s">>),
    Run(SpaceChars, 1), Lit(W_per),
    Run(SpaceChars, 1), Lit(W_day)>>

\* (\d+)\s+flight\s+per\s+day
RE_FPD_SINGULAR ==
  <<Cap(DigitChars, 1), Run(SpaceChars, 1), Lit(W_flight),
    Run(SpaceChars, 1), Lit(W_per),
    Run(SpaceChars, 1), Lit(W_day)>>

\* (\d+)\s+flights\s+per\s+day
RE_FPD_PLURAL ==
  <<Cap(DigitChars, 1), Run(SpaceChars, 1), Lit(W_flights),
    Run(SpaceChars, 1), Lit(W_per),
    Run(SpaceChars, 1), Lit(W_day)>>

\* A plausible slip: the single-count patterns tried before the range.
parse_flights_per_day_single_first(s) ==
  LET t  == Lower(Strip(s))
      m1 == ReSearch(RE_FPD_SINGULAR, t)
      m2 == ReSearch(RE_FPD_PLURAL, t)
      m3 == ReSearch(RE_FPD_RANGE, t)
  IN  IF t = <<>> THEN <<None, None>>
      ELSE IF m1.ok THEN <<ToInt(m1.caps[1]), ToInt(m1.caps[1])>>
      ELSE IF m2.ok THEN <<ToInt(m2.caps[1]), ToInt(m2.caps[1])>>
      ELSE IF m3.ok THEN <<ToInt(m3.caps[1]), ToInt(m3.caps[2])>>
      ELSE <<None, None>>

parse_flights_per_day(s) ==
  LET t  == Lower(Strip(s))
      m1 == ReSearch(RE_FPD_RANGE, t)
      m2 == ReSearch(RE_FPD_SINGULAR, t)
      m3 == ReSearch(RE_FPD_PLURAL, t)
  IN  IF t = <<>> THEN <<None, None>>
      ELSE IF m1.ok THEN <<ToInt(m1.caps[1]), ToInt(m1.caps[2])>>
      ELSE IF m2.ok THEN <<ToInt(m2.caps[1]), ToInt(m2.caps[1])>>
      ELSE IF m3.ok THEN <<ToInt(m3.caps[1]), ToInt(m3.caps[1])>>
      ELSE <<None, None>>

(***************************************************************************)
(* SpecFpd: parse_flights_per_day applied to frequency labels.  A label is *)
(* described by its parts (an optional first phrase and a main phrase) and *)
(* rendered to text; the claims state the expected result from the parts.  *)
(***************************************************************************)

\* The largest count written in a label.
MaxCount == 11

Counts == 0..MaxCount

W_Flights == <<"F", "l", "i", "g", "h", "t", "s">>
W_per_day == <<" ", "p", "e", "r", " ", "d", "a", "y">>
W_Per_Day == <<" ", "P", "e", "r", " ", " ", "D", "A", "Y">>
W_garbage == <<"g", "a", "r", "b", "a", "g", "e">>

Dashes == {<<"-">>, <<" ", "-", " ">>}
Gaps   == {<<>>, <<" ">>}
Words  == {W_flight, W_flights, W_Flights}
Tails  == {W_per_day}

Phrase(kd, n, m, dash, gap, word, tail) ==
  [kind |-> kd, n |-> n, m |-> m, dash |-> dash, gap |-> gap, word |-> word,
   tail |-> tail]

Plain(kd) == Phrase(kd, 0, 0, <<"-">>, <<" ">>, W_flights, W_per_day)

RangePhrases ==
  {Phrase("range", n, m, d, g, w, tl) :
     n \in Counts, m \in Counts, d \in Dashes, g \in Gaps, w \in Words, tl \in Tails}

SinglePhrases ==
  {Phrase("single", n, 0, <<"-">>, g, w, tl) :
     n \in Counts, g \in Gaps, w \in Words, tl \in Tails}

MainPhrases ==
  RangePhrases \cup SinglePhrases
    \cup {Plain("empty"), Plain("blank"), Plain("junk"),
          Phrase("range", 2, 4, <<"-">>, <<" ", "\t">>, W_Flights, W_Per_Day),
          Phrase("single", 7, 0, <<"-">>, <<" ", " ">>, W_flight, W_Per_Day)}

\* What may stand before the main phrase in the same text.
PrePhrases ==
  {Plain("none"), Plain("junk"),
   Phrase("single", 3, 0, <<"-">>, <<" ">>, W_flights, W_per_day),
   Phrase("single", 1, 0, <<"-">>, <<" ">>, W_flight, W_per_day),
   Phrase("single", 6, 0, <<"-">>, <<>>, W_flights, W_per_day),
   Phrase("range", 7, 9, <<"-">>, <<" ">>, W_flights, W_per_day),
   Phrase("range", 9, 8, <<"-">>, <<" ">>, W_flight, W_per_day)}

Labels == [pre : PrePhrases, main : MainPhrases]

Render(p) ==
  CASE p.kind = "range"  -> ToStr(p.n) \o p.dash \o ToStr(p.m) \o p.gap \o p.word \o p.tail
    [] p.kind = "single" -> ToStr(p.n) \o p.gap \o p.word \o p.tail
    [] p.kind = "junk"   -> W_garbage
    [] p.kind = "blank"  -> <<" ", "\n">>
    [] OTHER             -> <<>>

LabelText(l) ==
  IF l.pre.kind = "none" THEN Render(l.main)
  ELSE Render(l.pre) \o <<" ">> \o Render(l.main)

ParseFlightsPerDay ==
  /\ pc = "fpd_call"
  /\ fpd' = parse_flights_per_day(text)
  /\ pc' = "fpd_return"
  /\ UNCHANGED <<label, text, rowsVars, csvVars, mainVars>>

InitFpd ==
  /\ pc = "fpd_call"
  /\ label \in Labels
  /\ text = LabelText(label)
  /\ fpd = <<None, None>>
  /\ origin = <<>> /\ doc = <<>> /\ found = <<>>
  /\ rows = <<>> /\ rows2 = <<>> /\ csv = <<>> /\ csv2 = <<>>
  /\ airports = <<>> /\ idx = 0 /\ files = <<>> /\ log = <<>> /\ status = None

NextFpd == ParseFlightsPerDay

SpecFpd == InitFpd /\ [][NextFpd]_vars

\* The phrases of a label in text order.
PhrasesOf(l) == IF l.pre.kind = "none" THEN <<l.main>> ELSE <<l.pre, l.main>>

IsPlural(p) == p.word # W_flight
Spaced(p)   == p.gap # <<>>

\* Phrase p holds a range followed by "flights per day" (plural only when
\* strict, "flight" or "flights" otherwise).
HoldsRange(p, strict) ==
  p.kind = "range" /\ Spaced(p) /\ (strict => IsPlural(p))
\* Phrase p holds "<N> flight per day", resp. "<N> flights per day"; N is the
\* count that stands right before the word.
HoldsSingular(p) == p.kind \in {"range", "single"} /\ Spaced(p) /\ ~IsPlural(p)
HoldsPlural(p)   == p.kind \in {"range", "single"} /\ Spaced(p) /\ IsPlural(p)
CountBeforeWord(p) == IF p.kind = "range" THEN p.m ELSE p.n

FirstOf(S) == CHOOSE k \in S : \A j \in S : k <= j

\* The result the three prioritised patterns give on label l.
ExpectedFpd(l, strict) ==
  LET ps == PhrasesOf(l)
      a  == {k \in 1..Len(ps) : HoldsRange(ps[k], strict)}
      b  == {k \in 1..Len(ps) : HoldsSingular(ps[k])}
      c  == {k \in 1..Len(ps) : HoldsPlural(ps[k])}
  IN  IF a # {} THEN <<ps[FirstOf(a)].n, ps[FirstOf(a)].m>>
      ELSE IF b # {} THEN <<CountBeforeWord(ps[FirstOf(b)]), CountBeforeWord(ps[FirstOf(b)])>>
      ELSE IF c # {} THEN <<CountBeforeWord(ps[FirstOf(c)]), CountBeforeWord(ps[FirstOf(c)])>>
      ELSE <<None, None>>

\* C7 as stated: parse_flights_per_day returns what the three patterns give,
\* tried in the order range, singular, plural, where the range pattern
\* requires the plural "flights" (a range written with "flight" is left to
\* the singular pattern).
C7_ThreePatternsStrict ==
  pc = "fpd_return" => fpd = ExpectedFpd(label, TRUE)

\* C7 amended: parse_flights_per_day returns what the three patterns give,
\* tried in the order range, singular, plural, first match winning, where the
\* range pattern accepts "flight" as well as "flights"; no match gives
\* (None, None).
C7_ThreePatterns ==
  pc = "fpd_return" => fpd = ExpectedFpd(label, FALSE)

\* A text with a single-count phrase before a range has been parsed to the
\* range, and the range is written with the singular "flight".
C7_Witness ==
  /\ pc = "fpd_return"
  /\ label.pre.kind = "single" /\ HoldsPlural(label.pre)
  /\ label.main.kind = "range" /\ HoldsRange(label.main, FALSE)
  /\ ~IsPlural(label.main)
  /\ label.main.n # label.main.m
  /\ fpd = <<label.main.n, label.main.m>>

(***************************************************************************)
(* The remaining field parsers                                             *)
(***************************************************************************)

\* (\d+)\s*h
RE_HOURS == <<Cap(DigitChars, 1), Run(SpaceChars, 0), Lit(<<"h">>)>>
\* (\d+)\s*m
RE_MINS  == <<Cap(DigitChars, 1), Run(SpaceChars, 0), Lit(<<"m">>)>>

parse_duration_minutes(s) ==
  LET t     == Lower(Strip(s))
      mh    == ReSearch(RE_HOURS, t)
      mm    == ReSearch(RE_MINS, t)
      hours == IF mh.ok THEN ToInt(mh.caps[1]) ELSE 0
      mins  == IF mm.ok THEN ToInt(mm.caps[1]) ELSE 0
      total == hours * 60 + mins
  IN  IF t = <<>> THEN None
      ELSE IF total > 0 THEN total ELSE None

\* /([A-Z0-9]{2})_100px\.png
RE_LOGO == <<Lit(<<"/">>), CapN(UpperAlnum, 2), Lit(<<"_", "1", "0", "0", "p", "x", ".", "p", "n", "g">>)>>

extract_airline_iata_from_logo(url) ==
  LET m == ReSearch(RE_LOGO, url)
  IN  IF url = <<>> THEN <<>>
      ELSE IF m.ok THEN m.caps[1] ELSE <<>>

\* ^([A-Z]{2})\s*-\s*(.+)$
RE_FLAG ==
  <<CapN(UpperChars, 2), Run(SpaceChars, 0), Lit(<<"-">>), Run(SpaceChars, 0),
    Cap(NotNewline, 1), EndOfText>>

(***************************************************************************)
(* The document: a sequence of div.ff-wrapper elements.  A wrapper holds   *)
(* its <a> elements in document order, the flag image, the airline image   *)
(* and the elements carrying the frequency and the duration label.         *)
(***************************************************************************)

\* An element with its text nodes, or the element select_one does not find.
El(nodes) == [present |-> TRUE, nodes |-> nodes]
NoEl      == [present |-> FALSE, nodes |-> <<>>]

\* An <a href=...>, inside div.ff-row-name or elsewhere in the wrapper, with
\* its <strong> child.
Anchor(href, inName, strong) ==
  [href |-> href, in_row_name |-> inName, strong |-> strong]

\* img.flag-image[uk-tooltip]
Flag(tip) == [present |-> TRUE, tip |-> tip]
NoFlag    == [present |-> FALSE, tip |-> <<>>]

\* div.ff-row-airline img.ff-image-airline
AirlineImg(alt, src) == [present |-> TRUE, alt |-> alt, src |-> src]
NoAirlineImg         == [present |-> FALSE, alt |-> <<>>, src |-> <<>>]

Wrapper(anchors, flag, img, fpd_el, dur_el) ==
  [anchors |-> anchors, flag |-> flag, airline_img |-> img,
   fpd_el |-> fpd_el, dur_el |-> dur_el]

RECURSIVE Join(_, _)
Join(parts, sep) ==
  IF parts = <<>> THEN <<>>
  ELSE IF Len(parts) = 1 THEN parts[1]
  ELSE parts[1] \o sep \o Join(Tail(parts), sep)

IsNonEmpty(s) == s # <<>>

\* Tag.get_text(sep, strip=True): the text nodes stripped, the empty ones
\* dropped, the rest joined by sep.
get_text(el, sep) ==
  Join(SelectSeq([k \in 1..Len(el.nodes) |-> Strip(el.nodes[k])], IsNonEmpty), sep)

HasPrefix(s, p) == LitAt(s, 1, p)

extract_country_and_airport_from_flag(wrapper) ==
  LET tip == Strip(wrapper.flag.tip)
      m   == ReMatch(RE_FLAG, tip)
  IN  IF ~wrapper.flag.present THEN <<<<>>, <<>>>>
      ELSE IF ~m.ok THEN <<<<>>, <<>>>>
      ELSE <<m.caps[1], Strip(m.caps[2])>>

(***************************************************************************)
(* parse_rows                                                              *)
(***************************************************************************)

BaseUrl == <<"h", "t", "t", "p", "s", ":", "/", "/", "w", "w", "w", ".", "f", "l", "i", "g", "h", "t", "s", "f", "r", "o", "m", ".", "c", "o", "m">>

\* datetime.now(timezone.utc).isoformat(timespec="seconds"), read once per
\* call of parse_rows; no claim depends on the instant.
now_iso == <<"2", "0", "2", "6", "-", "1", "1", "-", "0", "4", "T", "1", "6", ":", "0", "0", ":", "0", "0", "+", "0", "0", ":", "0", "0">>

\* A plausible slip: the selector without div.ff-row-name.
SelectRouteLink_anywhere(wrapper, org) ==
  LET hits == {k \in 1..Len(wrapper.anchors) :
                 HasPrefix(wrapper.anchors[k].href, <<"/">> \o org \o <<"-">>)}
  IN  IF hits = {} THEN 0 ELSE CHOOSE k \in hits : \A j \in hits : k <= j

\* wrapper.select_one('div.ff-row-name a[href^="/{origin}-"]'): the first <a>
\* in document order that is inside div.ff-row-name and whose href attribute
\* begins with /<origin>-; 0 when there is none.
SelectRouteLink(wrapper, org) ==
  LET hits == {k \in 1..Len(wrapper.anchors) :
                 /\ wrapper.anchors[k].in_row_name
                 /\ HasPrefix(wrapper.anchors[k].href, <<"/">> \o org \o <<"-">>)}
  IN  IF hits = {} THEN 0 ELSE CHOOSE k \in hits : \A j \in hits : k <= j

\* rf"^/{origin}-([A-Z0-9]{{3}})$"
RE_HREF(org) == <<Lit(<<"/">> \o org \o <<"-">>), CapN(UpperAlnum, 3), EndOfText>>

\* The two guards of the loop body: the wrapper is not skipped.
Accepted(wrapper, org) ==
  LET k == SelectRouteLink(wrapper, org)
  IN  /\ k # 0
      /\ ReMatch(RE_HREF(org), Strip(wrapper.anchors[k].href)).ok

\* A plausible slip: the raw labels kept in normalised form (stripped and
\* lower-cased, as the parsers see them).
RowOf_normalised_raw(wrapper, org) ==
  LET a    == wrapper.anchors[SelectRouteLink(wrapper, org)]
      href == Strip(a.href)
      flag == extract_country_and_airport_from_flag(wrapper)
      img  == wrapper.airline_img
      logo == IF img.present THEN Strip(img.src) ELSE <<>>
      fraw == IF wrapper.fpd_el.present THEN get_text(wrapper.fpd_el, <<" ">>) ELSE <<>>
      draw == IF wrapper.dur_el.present THEN get_text(wrapper.dur_el, <<" ">>) ELSE <<>>
  IN  [origin_iata |-> org,
       destination_iata |-> ReMatch(RE_HREF(org), href).caps[1],
       destination_city |-> IF a.strong.present THEN get_text(a.strong, <<>>) ELSE <<>>,
       destination_country_iso2 |-> flag[1],
       destination_airport_name |-> flag[2],
       airline_name |-> IF img.present THEN Strip(img.alt) ELSE <<>>,
       airline_iata |-> extract_airline_iata_from_logo(logo),
       flights_per_day_min |-> parse_flights_per_day(fraw)[1],
       flights_per_day_max |-> parse_flights_per_day(fraw)[2],
       flights_per_day_raw |-> Lower(Strip(fraw)),
       duration_minutes |-> parse_duration_minutes(draw),
       duration_raw |-> Lower(Strip(draw)),
       airline_logo_url |-> logo,
       route_url |-> BaseUrl \o href,
       scraped_at |-> now_iso]

\* The Row the loop body builds from a wrapper that is not skipped.
RowOf(wrapper, org) ==
  LET a    == wrapper.anchors[SelectRouteLink(wrapper, org)]
      href == Strip(a.href)
      flag == extract_country_and_airport_from_flag(wrapper)
      img  == wrapper.airline_img
      logo == IF img.present THEN Strip(img.src) ELSE <<>>
      fraw == IF wrapper.fpd_el.present THEN get_text(wrapper.fpd_el, <<" ">>) ELSE <<>>
      draw == IF wrapper.dur_el.present THEN get_text(wrapper.dur_el, <<" ">>) ELSE <<>>
  IN  [origin_iata |-> org,
       destination_iata |-> ReMatch(RE_HREF(org), href).caps[1],
       destination_city |-> IF a.strong.present THEN get_text(a.strong, <<>>) ELSE <<>>,
       destination_country_iso2 |-> flag[1],
       destination_airport_name |-> flag[2],
       airline_name |-> IF img.present THEN Strip(img.alt) ELSE <<>>,
       airline_iata |-> extract_airline_iata_from_logo(logo),
       flights_per_day_min |-> parse_flights_per_day(fraw)[1],
       flights_per_day_max |-> parse_flights_per_day(fraw)[2],
       flights_per_day_raw |-> fraw,
       duration_minutes |-> parse_duration_minutes(draw),
       duration_raw |-> draw,
       airline_logo_url |-> logo,
       route_url |-> BaseUrl \o href,
       scraped_at |-> now_iso]

\* The list rows after the loop over soup.select("div.ff-wrapper").
RECURSIVE ExtractRows(_, _)
ExtractRows(wrappers, org) ==
  IF wrappers = <<>> THEN <<>>
  ELSE IF Accepted(wrappers[1], org)
         THEN <<RowOf(wrappers[1], org)>> \o ExtractRows(Tail(wrappers), org)
         ELSE ExtractRows(Tail(wrappers), org)

\* key = (r.origin_iata, r.destination_iata, r.airline_iata or r.airline_name)
DedupKey(r) ==
  <<r.origin_iata, r.destination_iata,
    IF r.airline_iata # <<>> THEN r.airline_iata ELSE r.airline_name>>

KeyPos(uniq, key) ==
  LET at == {p \in 1..Len(uniq) : uniq[p].key = key}
  IN  IF at = {} THEN 0 ELSE CHOOSE p \in at : TRUE

\* A plausible slip: the first record of a key kept (setdefault).
RECURSIVE DedupeFirstWins(_, _)
DedupeFirstWins(rs, uniq) ==
  IF rs = <<>> THEN uniq
  ELSE LET key == DedupKey(rs[1])
           p   == KeyPos(uniq, key)
       IN  DedupeFirstWins(Tail(rs),
             IF p = 0 THEN Append(uniq, [key |-> key, val |-> rs[1]]) ELSE uniq)

\* uniq[key] = r for each r of rs in turn, on a dict that keeps its keys in
\* the order of their first insertion.
RECURSIVE Dedupe(_, _)
Dedupe(rs, uniq) ==
  IF rs = <<>> THEN uniq
  ELSE LET key == DedupKey(rs[1])
           p   == KeyPos(uniq, key)
       IN  Dedupe(Tail(rs),
             IF p = 0 THEN Append(uniq, [key |-> key, val |-> rs[1]])
             ELSE [uniq EXCEPT ![p].val = rs[1]])

\* A plausible slip: the list returned without deduplication.
parse_rows_no_dedupe(html, org) == ExtractRows(html, org)

parse_rows(html, org) ==
  LET uniq == Dedupe(ExtractRows(html, org), <<>>)
  IN  [p \in 1..Len(uniq) |-> uniq[p].val]

(***************************************************************************)
(* rows_to_csv                                                             *)
(***************************************************************************)

fieldnames ==
  <<<<"o", "r", "i", "g", "i", "n", "_", "i", "a", "t", "a">>, <<"d", "e", "s", "t", "i", "n", "a", "t", "i", "o", "n", "_", "i", "a", "t", "a">>, <<"d", "e", "s", "t", "i", "n", "a", "t", "i", "o", "n", "_", "c", "i", "t", "y">>,
    <<"d", "e", "s", "t", "i", "n", "a", "t", "i", "o", "n", "_", "c", "o", "u", "n", "t", "r", "y", "_", "i", "s", "o", "2">>, <<"d", "e", "s", "t", "i", "n", "a", "t", "i", "o", "n", "_", "a", "i", "r", "p", "o", "r", "t", "_", "n", "a", "m", "e">>,
    <<"a", "i", "r", "l", "i", "n", "e", "_", "n", "a", "m", "e">>, <<"a", "i", "r", "l", "i", "n", "e", "_", "i", "a", "t", "a">>, <<"f", "l", "i", "g", "h", "t", "s", "_", "p", "e", "r", "_", "d", "a", "y", "_", "m", "i", "n">>,
    <<"f", "l", "i", "g", "h", "t", "s", "_", "p", "e", "r", "_", "d", "a", "y", "_", "m", "a", "x">>, <<"d", "u", "r", "a", "t", "i", "o", "n", "_", "m", "i", "n", "u", "t", "e", "s">>, <<"r", "o", "u", "t", "e", "_", "u", "r", "l">>,
    <<"s", "c", "r", "a", "p", "e", "d", "_", "a", "t">>, <<"f", "l", "i", "g", "h", "t", "s", "_", "p", "e", "r", "_", "d", "a", "y", "_", "r", "a", "w">>, <<"d", "u", "r", "a", "t", "i", "o", "n", "_", "r", "a", "w">>,
    <<"a", "i", "r", "l", "i", "n", "e", "_", "l", "o", "g", "o", "_", "u", "r", "l">>>>

\* "" if v is None else v, as csv writes it.
OptStr(v) == IF v = None THEN <<>> ELSE ToStr(v)

\* The dict handed to w.writerow, in the order of fieldnames.
Cells(r) ==
  <<r.origin_iata, r.destination_iata, r.destination_city,
    r.destination_country_iso2, r.destination_airport_name,
    r.airline_name, r.airline_iata, OptStr(r.flights_per_day_min),
    OptStr(r.flights_per_day_max), OptStr(r.duration_minutes), r.route_url,
    r.scraped_at, r.flights_per_day_raw, r.duration_raw, r.airline_logo_url>>

RECURSIVE DoubleQuotes(_)
DoubleQuotes(s) ==
  IF s = <<>> THEN <<>>
  ELSE (IF s[1] = "\"" THEN <<"\"", "\"">> ELSE <<s[1]>>) \o DoubleQuotes(Tail(s))

\* csv's excel dialect, QUOTE_MINIMAL: a field holding the delimiter, the
\* quote character or a character of the line terminator is quoted, its
\* quotes doubled.
CsvField(s) ==
  IF \E k \in 1..Len(s) : s[k] \in {",", "\"", "\r", "\n"}
    THEN <<"\"">> \o DoubleQuotes(s) \o <<"\"">>
    ELSE s

CsvLine(cells) ==
  Join([k \in 1..Len(cells) |-> CsvField(cells[k])], <<",">>) \o <<"\r", "\n">>

\* str < str: by code points, a proper prefix first.
StrLess(a, b) ==
  LET n == IF Len(a) < Len(b) THEN Len(a) ELSE Len(b)
      d == {k \in 1..n : a[k] # b[k]}
  IN  IF d = {} THEN Len(a) < Len(b)
      ELSE LET k == CHOOSE x \in d : \A y \in d : x <= y
           IN  Ord(a[k]) < Ord(b[k])

\* key=lambda x: (x.destination_iata, x.airline_iata, x.airline_name)
SortKey(r) == <<r.destination_iata, r.airline_iata, r.airline_name>>

\* tuple < tuple
KeyLess(x, y) ==
  \/ StrLess(x[1], y[1])
  \/ x[1] = y[1] /\ StrLess(x[2], y[2])
  \/ x[1] = y[1] /\ x[2] = y[2] /\ StrLess(x[3], y[3])

\* r put into the sorted list s behind every element whose key is not greater.
InsertSorted(s, r) ==
  LET gt == {p \in 1..Len(s) : KeyLess(SortKey(r), SortKey(s[p]))}
      p  == IF gt = {} THEN Len(s) + 1 ELSE CHOOSE x \in gt : \A y \in gt : x <= y
  IN  SubSeq(s, 1, p - 1) \o <<r>> \o SubSeq(s, p, Len(s))

\* sorted(rows, key=...): ascending by key, equal keys in input order.
RECURSIVE Sorted(_)
Sorted(rs) ==
  IF rs = <<>> THEN <<>>
  ELSE InsertSorted(Sorted(SubSeq(rs, 1, Len(rs) - 1)), rs[Len(rs)])

RECURSIVE CsvBody(_)
CsvBody(rs) ==
  IF rs = <<>> THEN <<>> ELSE CsvLine(Cells(rs[1])) \o CsvBody(Tail(rs))

rows_to_csv(rs) == CsvLine(fieldnames) \o CsvBody(Sorted(rs))

(***************************************************************************)
(* SpecRows: parse_rows on a document, then rows_to_csv on its result.     *)
(***************************************************************************)

\* The largest number of wrappers in a document.
MaxWrappers == 2

GDN == <<"G", "D", "N">>
WAW == <<"W", "A", "W">>
KRK == <<"K", "R", "K">>

Origins == {GDN, WAW}

City_Warsaw == El(<<<<" ", "W", "a", "r", "s", "a", "w", "\n">>>>)

\* The <a> elements of a wrapper.
A_WAW     == <<Anchor(<<"/", "G", "D", "N", "-", "W", "A", "W">>, TRUE, City_Warsaw)>>
A_KRK     == <<Anchor(<<"/", "G", "D", "N", "-", "K", "R", "K">>, TRUE, NoEl)>>
A_None    == <<>>
A_Foreign == <<Anchor(<<"/", "W", "A", "W", "-", "K", "R", "K">>, TRUE, NoEl)>>
\* the first link with the prefix does not conform, a later one does
A_LongThenExact    == <<Anchor(<<"/", "G", "D", "N", "-", "W", "A", "W", "X">>, TRUE, NoEl), Anchor(<<"/", "G", "D", "N", "-", "K", "R", "K">>, TRUE, NoEl)>>
A_ForeignThenExact == <<Anchor(<<"/", "W", "A", "W", "-", "G", "D", "N">>, TRUE, NoEl), Anchor(<<"/", "G", "D", "N", "-", "W", "A", "W">>, TRUE, City_Warsaw)>>
A_Lower   == <<Anchor(<<"/", "G", "D", "N", "-", "w", "a", "w">>, TRUE, NoEl)>>
A_Padded  == <<Anchor(<<"/", "G", "D", "N", "-", "W", "A", "W", "\n", " ">>, TRUE, City_Warsaw)>>
\* a conforming link that is not inside div.ff-row-name
A_Outside == <<Anchor(<<"/", "G", "D", "N", "-", "K", "R", "K">>, FALSE, NoEl)>>

F_Poland == Flag(<<"P", "L", " ", "-", " ", "W", "a", "r", "s", "a", "w", " ", "C", "h", "o", "p", "i", "n", " ">>)
F_Plain  == Flag(<<"P", "o", "l", "a", "n", "d">>)

Img_LOT     == AirlineImg(<<"L", "O", "T">>, <<"/", "a", "/", "L", "O", "_", "1", "0", "0", "p", "x", ".", "p", "n", "g">>)
Img_LOT2    == AirlineImg(<<"L", "O", "T", " ", "P", "o", "l", "i", "s", "h">>, <<"/", "a", "/", "L", "O", "_", "1", "0", "0", "p", "x", ".", "p", "n", "g">>)
Img_Ryanair == AirlineImg(<<"R", "y", "a", "n", "a", "i", "r">>, <<"/", "a", "/", "F", "R", "_", "1", "0", "0", "p", "x", ".", "p", "n", "g">>)
\* no code in the logo address, and a name equal to another airline's code
Img_NameLO  == AirlineImg(<<"L", "O">>, <<"/", "a", "/", "l", "o", "t", ".", "p", "n", "g">>)

Fpd_Range    == El(<<<<"2", "-", "4", " ", "f", "l", "i", "g", "h", "t", "s", " ", "p", "e", "r", " ", "d", "a", "y">>>>)
Fpd_Reversed == El(<<<<"\n", " ", "5", "-", "2", " ", "F", "l", "i", "g", "h", "t", "s", " ", "p", "e", "r", " ", "d", "a", "y", " ">>>>)
Fpd_Split    == El(<<<<"1", " ", "f", "l", "i", "g", "h", "t", " ">>, <<" ">>, <<"p", "e", "r", " ", "d", "a", "y">>>>)
Fpd_Garbage  == El(<<<<"d", "a", "i", "l", "y", ",", " ", "\"", "o", "f", "t", "e", "n", "\"">>>>)

Dur_Full == El(<<<<"1", "h", " ", "3", "0", "m">>>>)
Dur_Mins == El(<<<<"4", "5", " ", "M">>>>)
Dur_Zero == El(<<<<"0", "h", " ", "0", "m">>>>)

Wrappers ==
  {Wrapper(A_WAW, F_Poland, Img_LOT, Fpd_Range, Dur_Full),
   Wrapper(A_WAW, F_Plain, Img_LOT, Fpd_Reversed, NoEl),
   Wrapper(A_WAW, NoFlag, Img_LOT2, Fpd_Split, Dur_Mins),
   Wrapper(A_WAW, NoFlag, Img_NameLO, Fpd_Garbage, Dur_Zero),
   Wrapper(A_WAW, NoFlag, NoAirlineImg, NoEl, Dur_Full),
   Wrapper(A_KRK, NoFlag, Img_Ryanair, Fpd_Split, Dur_Full),
   Wrapper(A_None, F_Poland, Img_LOT, Fpd_Range, Dur_Full),
   Wrapper(A_Foreign, F_Poland, Img_LOT, Fpd_Range, Dur_Full),
   Wrapper(A_LongThenExact, F_Poland, Img_LOT, Fpd_Range, Dur_Full),
   Wrapper(A_ForeignThenExact, F_Poland, Img_Ryanair, Fpd_Garbage, Dur_Mins),
   Wrapper(A_Lower, F_Poland, Img_LOT, Fpd_Range, Dur_Full),
   Wrapper(A_Padded, F_Poland, Img_Ryanair, Fpd_Range, Dur_Full),
   Wrapper(A_Outside, F_Poland, Img_LOT, Fpd_Range, Dur_Full)}

SeqsUpTo(S, n) == UNION {[1..k -> S] : k \in 0..n}

Documents == SeqsUpTo(Wrappers, MaxWrappers)

\* rows = parse_rows(html, airport); found records the list the first loop
\* of parse_rows built, one record per wrapper not skipped.
ParseRows ==
  /\ pc = "rows_call"
  /\ found' = ExtractRows(doc, origin)
  /\ rows' = parse_rows(doc, origin)
  /\ pc' = "rows_return"
  /\ UNCHANGED <<fpdVars, origin, doc, rows2, csv, csv2, mainVars>>

\* csv_text = rows_to_csv(rows), on the list parse_rows returned.
RowsToCsv ==
  /\ pc = "rows_return"
  /\ csv' = rows_to_csv(rows)
  /\ pc' = "csv_return"
  /\ UNCHANGED <<fpdVars, rowsVars, rows, rows2, csv2, mainVars>>

InitRows ==
  /\ pc = "rows_call"
  /\ origin \in Origins
  /\ doc \in Documents
  /\ found = <<>>
  /\ rows = <<>> /\ rows2 = <<>> /\ csv = <<>> /\ csv2 = <<>>
  /\ label = <<>> /\ text = <<>> /\ fpd = <<None, None>>
  /\ airports = <<>> /\ idx = 0 /\ files = <<>> /\ log = <<>> /\ status = None

NextRows == ParseRows \/ RowsToCsv

SpecRows == InitRows /\ [][NextRows]_vars

(***************************************************************************)
(* Claims on parse_rows and on rows_to_csv of its result (SpecRows)        *)
(***************************************************************************)

Returned == pc \in {"rows_return", "csv_return"}

\* (origin_iata, destination_iata, airline_key), airline_key being
\* airline_iata if non-empty else airline_name.
ClaimKey(r) ==
  <<r.origin_iata, r.destination_iata,
    IF r.airline_iata = <<>> THEN r.airline_name ELSE r.airline_iata>>

\* found[k] is the record derived from the k-th accepted wrapper in document
\* order: the accepted wrappers giving the same dedup key as the k-th.
SameKeyAs(k) == {j \in 1..Len(found) : ClaimKey(found[j]) = ClaimKey(found[k])}
LastOf(S) == CHOOSE j \in S : \A j2 \in S : j2 <= j

\* C1: when two or more accepted wrappers give the same dedup key, the list
\* parse_rows returns holds exactly one record with that key, and it is the
\* record derived from the last of those wrappers, field for field.
C1_DedupLastWins ==
  Returned =>
    \A k \in 1..Len(found) :
      Cardinality(SameKeyAs(k)) >= 2 =>
        LET hits == {p \in 1..Len(rows) : ClaimKey(rows[p]) = ClaimKey(found[k])}
        IN  /\ Cardinality(hits) = 1
            /\ \A p \in hits : rows[p] = found[LastOf(SameKeyAs(k))]

\* parse_rows has returned on a document where two accepted wrappers give the
\* same key and different records.
C1_Witness ==
  /\ Returned
  /\ Len(found) = 2
  /\ ClaimKey(found[1]) = ClaimKey(found[2])
  /\ found[1] # found[2]
  /\ rows = <<found[2]>>

\* C2: in every record parse_rows returns, flights_per_day_min is None
\* exactly when flights_per_day_max is None, and min <= max when both are set.
C2_MinMaxInvariant ==
  \A p \in 1..Len(rows) :
    /\ (rows[p].flights_per_day_min = None) <=> (rows[p].flights_per_day_max = None)
    /\ rows[p].flights_per_day_min # None =>
         rows[p].flights_per_day_min <= rows[p].flights_per_day_max

\* h is "/<org>-" followed by exactly three upper-case letters or digits.
IsRouteAddress(h, org) ==
  /\ Len(h) = Len(org) + 5
  /\ h[1] = "/"
  /\ SubSeq(h, 2, Len(org) + 1) = org
  /\ h[Len(org) + 2] = "-"
  /\ \A k \in (Len(org) + 3)..(Len(org) + 5) : h[k] \in UpperAlnum

BeginsWith(h, p) == Len(h) >= Len(p) /\ SubSeq(h, 1, Len(p)) = p

\* As C6 states it: the wrapper contains a link whose address is h, and h
\* matches exactly.
EmitsForAnyLink(w, h) ==
  \E k \in 1..Len(w.anchors) :
    w.anchors[k].href = h /\ IsRouteAddress(h, origin)

\* As the code has it: the first link inside the wrapper's name cell whose
\* address begins with /<origin>- has the address h once trimmed of
\* surrounding whitespace, and h matches exactly.
EmitsForFirstLink(w, h) ==
  \E k \in 1..Len(w.anchors) :
    /\ w.anchors[k].in_row_name
    /\ BeginsWith(w.anchors[k].href, <<"/">> \o origin \o <<"-">>)
    /\ \A j \in 1..(k - 1) :
         ~(/\ w.anchors[j].in_row_name
           /\ BeginsWith(w.anchors[j].href, <<"/">> \o origin \o <<"-">>))
    /\ h = Strip(w.anchors[k].href)
    /\ IsRouteAddress(h, origin)

Addresses(w) ==
  {w.anchors[k].href : k \in 1..Len(w.anchors)}
    \cup {Strip(w.anchors[k].href) : k \in 1..Len(w.anchors)}

\* Record r is the one emitted for link address h.
RecordFor(r, h) ==
  /\ r.origin_iata = origin
  /\ r.destination_iata = SubSeq(h, Len(origin) + 3, Len(origin) + 5)
  /\ r.route_url = BaseUrl \o h

\* Every record returned is the record of a wrapper that emits, every
\* wrapper that emits has its record (origin, destination, route_url) in the
\* result, and the wrappers that do not emit could as well not be there.
EmissionRule(Emits(_, _)) ==
  Returned =>
    /\ \A p \in 1..Len(rows) :
         \E i \in 1..Len(doc) : \E h \in Addresses(doc[i]) :
           Emits(doc[i], h) /\ RecordFor(rows[p], h)
    /\ \A i \in 1..Len(doc) : \A h \in Addresses(doc[i]) :
         Emits(doc[i], h) => \E p \in 1..Len(rows) : RecordFor(rows[p], h)
    /\ LET Emitting(w) == \E h \in Addresses(w) : Emits(w, h)
       IN  rows = parse_rows(SelectSeq(doc, Emitting), origin)

\* C6 as stated: a wrapper gives a record if and only if it contains a link
\* whose address matches /<origin>-XXX exactly; other wrappers are skipped
\* without effect; the record has the caller's origin, the three characters
\* as destination and the site followed by the address as route_url.
C6_EmitsIffExactLink == EmissionRule(EmitsForAnyLink)

\* C6 amended: the same, for the link parse_rows looks at: the first link
\* inside the wrapper's name cell whose address begins with /<origin>-, its
\* address trimmed of surrounding whitespace.
C6_EmitsIffFirstLinkExact == EmissionRule(EmitsForFirstLink)

\* parse_rows has returned one record on a document of two wrappers, one
\* linking to the origin's route and one whose first prefixed link does not
\* conform.
C6_Witness ==
  /\ Returned
  /\ Len(doc) = 2 /\ Len(rows) = 1
  /\ \E i \in 1..2 : \E h \in Addresses(doc[i]) :
       EmitsForFirstLink(doc[i], h) /\ RecordFor(rows[1], h)
  /\ \E i \in 1..2 :
       /\ SelectRouteLink(doc[i], origin) # 0
       /\ \A h \in Addresses(doc[i]) : ~EmitsForFirstLink(doc[i], h)

\* Reading the text back as csv.reader does.  A character is inside a quoted
\* field when an odd number of quote characters stands before it.
QuotesBefore(t, i) == Cardinality({k \in 1..(i - 1) : t[k] = "\""})
Unquoted(t, i) == QuotesBefore(t, i) % 2 = 0

\* The q-th smallest element of a set of positions.
Nth(S, q) == CHOOSE e \in S : Cardinality({x \in S : x < e}) = q - 1

\* The pieces of t[lo..hi] between the cut positions of S, each cut being
\* width characters wide.
Pieces(t, lo, hi, S, width) ==
  [q \in 1..(Cardinality(S) + 1) |->
     SubSeq(t,
            IF q = 1 THEN lo ELSE Nth(S, q - 1) + width,
            IF q = Cardinality(S) + 1 THEN hi ELSE Nth(S, q) - 1)]

\* A field with its quotes removed and its doubled quotes undone.
Unquote(f) ==
  IF f = <<>> \/ f[1] # "\"" THEN f
  ELSE LET inner == SubSeq(f, 2, Len(f) - 1)
           keep  == {k \in 1..Len(inner) :
                       inner[k] # "\"" \/ QuotesBefore(inner, k) % 2 = 0}
       IN  [j \in 1..Cardinality(keep) |-> inner[Nth(keep, j)]]

CsvFields(line) ==
  LET seps == {i \in 1..Len(line) : line[i] = "," /\ Unquoted(line, i)}
      raw  == Pieces(line, 1, Len(line), seps, 1)
  IN  [k \in 1..Len(raw) |-> Unquote(raw[k])]

\* The rows of the text, each the sequence of its fields.
CsvRead(t) ==
  LET ends  == {i \in 1..(Len(t) - 1) :
                  t[i] = "\r" /\ t[i + 1] = "\n" /\ Unquoted(t, i)}
      lines == Pieces(t, 1, Len(t), ends, 2)
  IN  [q \in 1..Cardinality(ends) |-> CsvFields(lines[q])]

\* The label of an element as the document shows it: its text, or empty when
\* the element is absent.
LabelOf(el) == IF el.present THEN get_text(el, <<" ">>) ELSE <<>>

IsAccepted(w) == Accepted(w, origin)

\* The wrappers parse_rows does not skip, in document order: the k-th is the
\* one found[k] was derived from.
AcceptedWrappers == SelectSeq(doc, IsAccepted)

\* C8: every record's flights_per_day_raw and duration_raw are the labels of
\* the wrapper the record was derived from, parsed or not, and the row
\* rows_to_csv writes for the record carries the same two strings.
C8_RawPreserved ==
  pc = "csv_return" =>
    LET table == CsvRead(csv) IN
    /\ Len(table) = Len(rows) + 1
    /\ Len(found) = Len(AcceptedWrappers)
    /\ \A k \in 1..Len(found) :
         /\ found[k].flights_per_day_raw = LabelOf(AcceptedWrappers[k].fpd_el)
         /\ found[k].duration_raw = LabelOf(AcceptedWrappers[k].dur_el)
    /\ \A p \in 1..Len(rows) :
         /\ \E k \in 1..Len(found) : rows[p] = found[k]
         /\ \E q \in 2..Len(table) :
              /\ Len(table[q]) = 15
              /\ table[q][2] = rows[p].destination_iata
              /\ table[q][6] = rows[p].airline_name
              /\ table[q][7] = rows[p].airline_iata
              /\ table[q][13] = rows[p].flights_per_day_raw
              /\ table[q][14] = rows[p].duration_raw
              /\ (table[q][8] = <<>>) <=> (rows[p].flights_per_day_min = None)
              /\ (table[q][10] = <<>>) <=> (rows[p].duration_minutes = None)

\* A record whose frequency and duration did not parse has been written with
\* its raw labels, the frequency label one that needs quoting.
C8_Witness ==
  /\ pc = "csv_return"
  /\ \E p \in 1..Len(rows) :
       /\ rows[p].flights_per_day_min = None
       /\ rows[p].duration_minutes = None
       /\ rows[p].duration_raw # <<>>
       /\ \E k \in 1..Len(rows[p].flights_per_day_raw) :
            rows[p].flights_per_day_raw[k] = ","

Perms(n) == {f \in [1..n -> 1..n] : \A a, b \in 1..n : f[a] = f[b] => a = b}

Permuted(s, f) == [k \in 1..Len(s) |-> s[f[k]]]

\* C10: no two records parse_rows returns have the same
\* (destination_iata, airline_iata, airline_name), and rows_to_csv gives the
\* same text for every order of the returned records.
C10_SortKeysDistinct ==
  Returned =>
    /\ \A p, q \in 1..Len(rows) :
         p # q =>
           <<rows[p].destination_iata, rows[p].airline_iata, rows[p].airline_name>>
             # <<rows[q].destination_iata, rows[q].airline_iata, rows[q].airline_name>>
    /\ \A f \in Perms(Len(rows)) :
         rows_to_csv(Permuted(rows, f)) = rows_to_csv(rows)

\* parse_rows has returned several records in an order that is not the
\* sorted one, and they have been serialized.
C10_Witness ==
  /\ pc = "csv_return"
  /\ Len(rows) >= 2
  /\ Sorted(rows) # rows

(***************************************************************************)
(* SpecCsv: rows_to_csv on two orderings of one collection of records.     *)
(***************************************************************************)

\* The largest number of records handed to rows_to_csv.
MaxRows == 2

\* A Row with the given destination, airline code, airline name and
\* duration label; the other fields as parse_rows would fill them.
Rec(dest, iata, name, draw) ==
  [origin_iata |-> GDN,
   destination_iata |-> dest,
   destination_city |-> <<>>,
   destination_country_iso2 |-> <<>>,
   destination_airport_name |-> <<>>,
   airline_name |-> name,
   airline_iata |-> iata,
   flights_per_day_min |-> None,
   flights_per_day_max |-> None,
   flights_per_day_raw |-> <<>>,
   duration_minutes |-> parse_duration_minutes(draw),
   duration_raw |-> draw,
   airline_logo_url |-> <<>>,
   route_url |-> BaseUrl \o <<"/", "G", "D", "N", "-">> \o dest,
   scraped_at |-> now_iso]

Records ==
  {Rec(d, i, n, r) : d \in {KRK, WAW}, i \in {<<>>, <<"L", "O">>},
                     n \in {<<"L", "O">>, <<"L", "O", "T">>}, r \in {<<>>, <<"1", "h">>}}

RowLists == SeqsUpTo(Records, MaxRows)

\* rows_to_csv called on a list and on a reordering of it.
RowsToCsvTwice ==
  /\ pc = "csv_call"
  /\ csv' = rows_to_csv(rows)
  /\ csv2' = rows_to_csv(rows2)
  /\ pc' = "csv_return"
  /\ UNCHANGED <<fpdVars, rowsVars, rows, rows2, mainVars>>

InitCsv ==
  /\ pc = "csv_call"
  /\ rows \in RowLists
  /\ \E f \in Perms(Len(rows)) : rows2 = Permuted(rows, f)
  /\ csv = <<>> /\ csv2 = <<>>
  /\ origin = <<>> /\ doc = <<>> /\ found = <<>>
  /\ label = <<>> /\ text = <<>> /\ fpd = <<None, None>>
  /\ airports = <<>> /\ idx = 0 /\ files = <<>> /\ log = <<>> /\ status = None

NextCsv == RowsToCsvTwice

SpecCsv == InitCsv /\ [][NextCsv]_vars

\* C3: rows_to_csv gives the same text for every two orderings of the same
\* collection of records.
C3_OrderIndependent ==
  pc = "csv_return" => csv = csv2

(***************************************************************************)
(* SpecMain: the batch loop of main.  The output directory maps a file     *)
(* name, (origin, extension), to what the file holds.                      *)
(***************************************************************************)

\* The largest number of origins in --airports.
MaxAirports == 2

\* The origins a batch is made of, and one more whose files an earlier run
\* may have left.
BatchOrigins == {GDN, WAW}
KnownOrigins == {GDN, WAW, KRK}

Batches == SeqsUpTo(BatchOrigins, MaxAirports)

CsvFile(a)   == <<a, "csv">>
ErrorFile(a) == <<a, "error.txt">>

FileNames == {CsvFile(a) : a \in KnownOrigins} \cup {ErrorFile(a) : a \in KnownOrigins}

\* What an earlier run may have left: complete tables and error markers.
InitialDirs ==
  {d \in [FileNames -> {"absent", "complete", "marker"}] :
     \A a \in KnownOrigins :
       d[CsvFile(a)] \in {"absent", "complete"} /\ d[ErrorFile(a)] \in {"absent", "marker"}}

\* except Exception: what the try block raises (playwright's errors, OSError
\* of write_text, errors of the parser) is an Exception.
Caught_timeouts_only(stage) == stage = "fetch"

Caught(stage) == TRUE

\* A plausible slip: the failure only printed.
ExceptHandler_print_only(dir, airport) == dir

\* (out_dir / f"{airport}.error.txt").write_text(str(e), encoding="utf-8")
ExceptHandler(dir, airport) == [dir EXCEPT ![ErrorFile(airport)] = "marker"]

\* if any(out_dir.glob("*.error.txt")): return 2; return 0
ExitStatus(dir) ==
  IF \E a \in KnownOrigins : dir[ErrorFile(a)] # "absent" THEN 2 ELSE 0

InLoop == pc = "loop" /\ idx < Len(airports)

\* One iteration in which fetch, parse, serialize and write_text succeed.
OriginSucceeds ==
  /\ InLoop
  /\ LET airport == airports[idx + 1] IN
       /\ files' = [files EXCEPT ![CsvFile(airport)] = "complete"]
       /\ log' = Append(log, [airport |-> airport, result |-> "ok", stage |-> "none"])
  /\ idx' = idx + 1
  /\ UNCHANGED <<pc, airports, status, fpdVars, rowsVars, csvVars>>

\* The files after an iteration whose try block raised at stage, and where
\* control goes then.
AfterRaise(stage, dirThen) ==
  LET airport == airports[idx + 1] IN
  IF Caught(stage)
    THEN /\ files' = ExceptHandler(dirThen, airport)
         /\ log' = Append(log, [airport |-> airport, result |-> "failed", stage |-> stage])
         /\ idx' = idx + 1
         /\ pc' = pc
    ELSE /\ files' = dirThen
         /\ log' = Append(log, [airport |-> airport, result |-> "failed", stage |-> stage])
         /\ idx' = idx
         /\ pc' = "crashed"

\* One iteration in which fetch_rendered_html, parse_rows or rows_to_csv
\* raises: nothing is written before the handler runs.
OriginRaisesBeforeWrite ==
  /\ InLoop
  /\ \E stage \in {"fetch", "parse", "serialize"} : AfterRaise(stage, files)
  /\ UNCHANGED <<airports, status, fpdVars, rowsVars, csvVars>>

\* One iteration in which out_path.write_text raises: on opening the file,
\* which is left as it was, or while writing, which leaves it cut short.
OriginRaisesInWrite ==
  /\ InLoop
  /\ \E left \in {files[CsvFile(airports[idx + 1])], "partial"} :
       AfterRaise("write", [files EXCEPT ![CsvFile(airports[idx + 1])] = left])
  /\ UNCHANGED <<airports, status, fpdVars, rowsVars, csvVars>>

\* The loop is over: main returns its status.
Return ==
  /\ pc = "loop" /\ idx = Len(airports)
  /\ status' = ExitStatus(files)
  /\ pc' = "returned"
  /\ UNCHANGED <<airports, idx, files, log, fpdVars, rowsVars, csvVars>>

InitMain ==
  /\ pc = "loop"
  /\ airports \in Batches
  /\ idx = 0
  /\ files \in InitialDirs
  /\ log = <<>>
  /\ status = None
  /\ origin = <<>> /\ doc = <<>> /\ found = <<>>
  /\ rows = <<>> /\ rows2 = <<>> /\ csv = <<>> /\ csv2 = <<>>
  /\ label = <<>> /\ text = <<>> /\ fpd = <<None, None>>

NextMain == OriginSucceeds \/ OriginRaisesBeforeWrite \/ OriginRaisesInWrite \/ Return

\* main is one sequential thread: it takes its next step, and every step
\* ends (the waits of fetch_rendered_html have timeouts).
SpecMain == InitMain /\ [][NextMain]_vars /\ WF_vars(NextMain)

Failed(k)    == log[k].result = "failed"
Succeeded(k) == log[k].result = "ok"

\* The origins are attempted in list order, one log entry each.
AttemptedInOrder ==
  /\ Len(log) = idx
  /\ \A k \in 1..Len(log) : log[k].airport = airports[k]

\* An origin whose latest attempt succeeded has its complete table.
SucceededHaveTable ==
  \A k \in 1..Len(log) :
    (Succeeded(k) /\ \A j \in (k + 1)..Len(log) : log[j].airport # log[k].airport)
      => files[CsvFile(log[k].airport)] = "complete"

BatchDone ==
  /\ pc = "returned"
  /\ Len(log) = Len(airports)
  /\ status \in {0, 2}

C9_AllSucceedReturnsZero ==
  (pc = "returned" /\ \A k \in 1..Len(log) : Succeeded(k)) => status = 0

====
